---- MODULE Spec2Model ----
(***************************************************************************)
(* cargo-semver: the Version value type (src/model.rs, src/main.rs) and    *)
(* the orchestration of main (src/main.rs).                                *)
(*                                                                         *)
(* Text is a sequence of one-character strings.  A u64 is kept at its full *)
(* width as four 16-bit limbs, least significant first, so that parsing,   *)
(* formatting and the increment are computed digit by digit and limb by    *)
(* limb, and overflow happens at 2^64 exactly.                             *)
(***************************************************************************)
EXTENDS Integers, Sequences, FiniteSets, TLC

VARIABLES
    \* ---- the Version type on its own (SpecVersion)
    input,        \* the text handed to Version::from_str
    vpc,          \* "input" | "parsed" | "failed" | "bumped" | "panicked"
    cur,          \* from_str's result, later the bumped Version
    shown,        \* what Display last rendered of cur
    \* ---- one run of main (Spec)
    dry_run,      \* Args.dry_run
    git,          \* Args.git
    command,      \* Args.command
    build,        \* "debug" (overflow checks on) | "release" (wrapping)
    manifest,     \* Cargo.toml on disk: [kind, text]
    pc,           \* position in main
    loaded,       \* get_cargo_version's `version` string
    version,      \* main's `version`
    version_new,  \* main's `version_new`
    clean,        \* what is_working_dir_clean returned
    calls,        \* file writes and subprocesses, in the order performed
    out,          \* lines printed
    exit          \* "running" | "ok" | "err" | "panic"

vvars == <<input, vpc, cur, shown>>
mvars == <<dry_run, git, command, manifest, pc, loaded, version,
           version_new, clean, calls, out, exit>>
vars == <<input, vpc, cur, shown, dry_run, git, command, build, manifest, pc,
          loaded, version, version_new, clean, calls, out, exit>>

(***************************************************************************)
(* u64                                                                     *)
(***************************************************************************)
U64Bits == 64
LimbBase == 2 ^ 16
NLimbs == U64Bits \div 16
Limbs == 1..NLimbs

U64Zero == [i \in Limbs |-> 0]
U64Max == [i \in Limbs |-> LimbBase - 1]

\* the carry into limb i of v * m + a
RECURSIVE MulAddCarry(_, _, _, _)
MulAddCarry(v, m, a, i) ==
    IF i = 1 THEN a
    ELSE (v[i - 1] * m + MulAddCarry(v, m, a, i - 1)) \div LimbBase

\* u64::checked_mul(m) followed by u64::checked_add(a): v * m + a, or overflow
CheckedMulAdd(v, m, a) ==
    [ok  |-> MulAddCarry(v, m, a, NLimbs + 1) = 0,
     val |-> [i \in Limbs |-> (v[i] * m + MulAddCarry(v, m, a, i)) % LimbBase]]

\* the remainder carried into limb i (from the limbs above it) of v / d
RECURSIVE DivRem(_, _, _)
DivRem(v, d, i) ==
    IF i = NLimbs THEN 0
    ELSE (DivRem(v, d, i + 1) * LimbBase + v[i + 1]) % d

DivSmall(v, d) == [i \in Limbs |-> (DivRem(v, d, i) * LimbBase + v[i]) \div d]
ModSmall(v, d) == (DivRem(v, d, 1) * LimbBase + v[1]) % d

\* `x + 1` on a u64: the sum modulo 2^64 and whether it overflowed
AddOne(v) ==
    [overflow |-> MulAddCarry(v, 1, 1, NLimbs + 1) # 0,
     val      |-> [i \in Limbs |-> (v[i] + MulAddCarry(v, 1, 1, i)) % LimbBase]]

(***************************************************************************)
(* text                                                                    *)
(***************************************************************************)
DigitChars == <<"0", "1", "2", "3", "4", "5", "6", "7", "8", "9">>
IsDigit(c) == \E d \in 1..10 : DigitChars[d] = c
DigitVal(c) == (CHOOSE d \in 1..10 : DigitChars[d] = c) - 1

\* str::split('.'): the segments between the dots; always at least one
RECURSIVE SplitFrom(_, _)
SplitFrom(s, acc) ==
    IF s = <<>> THEN <<acc>>
    ELSE IF Head(s) = "." THEN <<acc>> \o SplitFrom(Tail(s), <<>>)
    ELSE SplitFrom(Tail(s), Append(acc, Head(s)))

Split(s) == SplitFrom(s, <<>>)

\* the digit loop of str::parse::<u64>: checked multiply by ten, add the digit
RECURSIVE ParseDigits(_, _)
ParseDigits(s, acc) ==
    IF s = <<>> THEN [ok |-> TRUE, val |-> acc, err |-> "none"]
    ELSE IF ~IsDigit(Head(s)) THEN [ok |-> FALSE, val |-> U64Zero, err |-> "InvalidDigit"]
    ELSE LET r == CheckedMulAdd(acc, 10, DigitVal(Head(s)))
         IN  IF ~r.ok THEN [ok |-> FALSE, val |-> U64Zero, err |-> "PosOverflow"]
             ELSE ParseDigits(Tail(s), r.val)

\* str::parse::<u64>: an optional leading '+', then one or more decimal digits
ParseU64(s) ==
    IF s = <<>> THEN [ok |-> FALSE, val |-> U64Zero, err |-> "Empty"]
    ELSE IF Len(s) = 1 /\ Head(s) \in {"+", "-"}
         THEN [ok |-> FALSE, val |-> U64Zero, err |-> "InvalidDigit"]
    ELSE IF Head(s) = "+" THEN ParseDigits(Tail(s), U64Zero)
    ELSE ParseDigits(s, U64Zero)

\* Display for u64: the decimal digits, most significant first; zero is "0"
RECURSIVE DigitsOf(_)
DigitsOf(v) ==
    IF v = U64Zero THEN <<>>
    ELSE DigitsOf(DivSmall(v, 10)) \o <<DigitChars[ModSmall(v, 10) + 1]>>

\* a rendering that forgets the digit of zero
FormatU64NoZero(v) == DigitsOf(v)

FormatU64(v) == IF v = U64Zero THEN <<"0">> ELSE DigitsOf(v)

(***************************************************************************)
(* Version                                                                 *)
(***************************************************************************)
NoVersion == [major |-> U64Zero, minor |-> U64Zero, patch |-> U64Zero]

Failed(component, why) ==
    [ok |-> FALSE, ver |-> NoVersion, component |-> component, err |-> why]

\* Version::from_str: the first three segments of split('.'), each parsed
FromStr(value) ==
    LET parts == Split(value)
        major == ParseU64(parts[1])
    IN  IF ~major.ok THEN Failed("major", major.err)
        ELSE IF Len(parts) < 2 THEN Failed("minor", "NotFound")
        ELSE LET minor == ParseU64(parts[2])
             IN  IF ~minor.ok THEN Failed("minor", minor.err)
                 ELSE IF Len(parts) < 3 THEN Failed("patch", "NotFound")
                 ELSE LET patch == ParseU64(parts[3])
                      IN  IF ~patch.ok THEN Failed("patch", patch.err)
                          ELSE [ok |-> TRUE,
                                ver |-> [major |-> major.val, minor |-> minor.val,
                                         patch |-> patch.val],
                                component |-> "none", err |-> "none"]

\* Display for Version: "{major}.{minor}.{patch}"
Format(v) ==
    FormatU64(v.major) \o <<".">> \o FormatU64(v.minor) \o <<".">> \o FormatU64(v.patch)

\* the three bumps: the new Version and whether the `+ 1` overflowed
patch_version(v) ==
    [overflow |-> AddOne(v.patch).overflow,
     ver |-> [major |-> v.major, minor |-> v.minor, patch |-> AddOne(v.patch).val]]

\* a minor bump that leaves the patch number in place
minor_version_keeps_patch(v) ==
    [overflow |-> AddOne(v.minor).overflow,
     ver |-> [major |-> v.major, minor |-> AddOne(v.minor).val, patch |-> v.patch]]

minor_version(v) ==
    [overflow |-> AddOne(v.minor).overflow,
     ver |-> [major |-> v.major, minor |-> AddOne(v.minor).val, patch |-> U64Zero]]

major_version(v) ==
    [overflow |-> AddOne(v.major).overflow,
     ver |-> [major |-> AddOne(v.major).val, minor |-> U64Zero, patch |-> U64Zero]]

\* an overflowing `+ 1` panics when the build checks overflow and wraps otherwise
Panics(bumped) == bumped.overflow /\ build = "debug"

(***************************************************************************)
(* inputs                                                                  *)
(***************************************************************************)
MaxSegs == 4

MaxText == <<"1","8","4","4","6","7","4","4","0","7","3","7","0","9","5","5","1","6","1","5">>
OverText == <<"1","8","4","4","6","7","4","4","0","7","3","7","0","9","5","5","1","6","1","6">>

SegPool == { <<>>, <<"0">>, <<"1">>, <<"0", "1">>, <<"+", "1">>, <<"-", "1">>,
             <<"x">>, MaxText, OverText }

RECURSIVE Join(_)
Join(segs) ==
    IF Len(segs) = 1 THEN segs[1]
    ELSE segs[1] \o <<".">> \o Join(Tail(segs))

Texts == UNION { { Join(t) : t \in [1..n -> SegPool] } : n \in 1..MaxSegs }

NotShown == [set |-> FALSE, text |-> <<>>]
Builds == {"debug", "release"}
Commands == {"Patch", "Minor", "Major"}

(***************************************************************************)
(* the Version type on its own                                             *)
(***************************************************************************)
IdleMain ==
    /\ dry_run = TRUE /\ git = FALSE /\ command = "Patch"
    /\ manifest = [kind |-> "missing", text |-> <<>>]
    /\ pc = "idle" /\ loaded = <<>>
    /\ version = NoVersion /\ version_new = NoVersion
    /\ clean = "unqueried" /\ calls = <<>> /\ out = <<>> /\ exit = "running"

InitVersion ==
    /\ input \in Texts
    /\ vpc = "input"
    /\ cur = Failed("none", "none")
    /\ shown = NotShown
    /\ build \in Builds
    /\ IdleMain

VFromStr ==
    /\ vpc = "input"
    /\ cur' = FromStr(input)
    /\ vpc' = IF cur'.ok THEN "parsed" ELSE "failed"
    /\ UNCHANGED <<input, shown, build>>
    /\ UNCHANGED mvars

VDisplay ==
    /\ vpc \in {"parsed", "bumped"}
    /\ ~shown.set
    /\ shown' = [set |-> TRUE, text |-> Format(cur.ver)]
    /\ UNCHANGED <<input, vpc, cur, build>>
    /\ UNCHANGED mvars

VBump(bumped) ==
    /\ vpc = "parsed"
    /\ IF Panics(bumped)
       THEN vpc' = "panicked" /\ cur' = cur
       ELSE vpc' = "bumped" /\ cur' = [cur EXCEPT !.ver = bumped.ver]
    /\ shown' = NotShown
    /\ UNCHANGED <<input, build>>
    /\ UNCHANGED mvars

VPatch == VBump(patch_version(cur.ver))
VMinor == VBump(minor_version(cur.ver))
VMajor == VBump(major_version(cur.ver))

NextVersion == VFromStr \/ VDisplay \/ VPatch \/ VMinor \/ VMajor

SpecVersion == InitVersion /\ [][NextVersion]_vars

(***************************************************************************)
(* main                                                                    *)
(***************************************************************************)
\* the components a manifest version is built from in the runs explored
CompPool == { <<"1">>, <<"9">>, <<"6", "5", "5", "3", "5">>, MaxText }

ManifestTexts ==
    { Join(t) : t \in [1..3 -> CompPool] }
        \cup { <<"1", ".", "1">>, <<"1", ".", "1", ".", "x">> }

Manifests ==
    { [kind |-> k, text |-> <<>>] :
        k \in {"missing", "unparseable", "no_package", "no_version", "not_string"} }
        \cup { [kind |-> "ok", text |-> t] : t \in ManifestTexts }

\* a subprocess: it ran and exited 0, ran and exited non-zero, or did not start
Outcomes == {"ok", "nonzero", "spawn_err"}
\* what `git status --porcelain` wrote to its standard output
Stdouts == {"empty", "blank", "changes", "invalid_utf8"}

Call(op, arg, outcome) == [op |-> op, arg |-> arg, outcome |-> outcome]
Line(msg, from, to) == [msg |-> msg, from |-> from, to |-> to]

\* a Load that takes 0.0.0 when the manifest gives no version
GetCargoVersionDefault(m) ==
    IF m.kind # "ok"
    THEN [ok |-> TRUE, ver |-> NoVersion, component |-> "none", err |-> "none"]
    ELSE FromStr(m.text)

\* get_cargo_version: read, parse as TOML, package.version as a string, from_str
GetCargoVersion(m) ==
    IF m.kind # "ok" THEN Failed("manifest", m.kind) ELSE FromStr(m.text)

\* `!args.dry_run && ...`: a dry run never asks the repository
SkipsGuard == dry_run

\* String::from_utf8(output.stdout)?.trim().is_empty()
IsClean(stdout) == stdout \in {"empty", "blank"}

\* a guard that never stops the run
GuardStopsNever(isClean) == FALSE

\* `if !args.dry_run && !is_working_dir_clean()? { ...; return Ok(()) }`
GuardStops(isClean) == ~dry_run /\ ~isClean

\* `match &args.command`
Bump(cmd, v) ==
    CASE cmd = "Patch" -> patch_version(v)
      [] cmd = "Minor" -> minor_version(v)
      [] cmd = "Major" -> major_version(v)

\* a dry-run flag the write does not look at
SkipsWriteNever == FALSE

\* `match args.dry_run { true => println!(...), false => { ... } }`
SkipsWrite == dry_run

\* a commit that does not wait for --git
WantsCommitAlways == TRUE

\* `if args.git { commit_with_tag(&version_new)?; }`
WantsCommit == git

\* a tag name without its "v"
TagNameBare(v) == Format(v)

\* format!("... v{version}"): the commit message and the tag name
TagName(v) == <<"v">> \o Format(v)

Finish(status) == pc' = "done" /\ exit' = status

IdleVersion ==
    /\ input = <<>> /\ vpc = "idle"
    /\ cur = Failed("none", "none") /\ shown = NotShown

Init ==
    /\ dry_run \in BOOLEAN
    /\ git \in BOOLEAN
    /\ command \in Commands
    /\ build \in Builds
    /\ manifest \in Manifests
    /\ pc = "load"
    /\ loaded = <<>>
    /\ version = NoVersion
    /\ version_new = NoVersion
    /\ clean = "unqueried"
    /\ calls = <<>>
    /\ out = <<>>
    /\ exit = "running"
    /\ IdleVersion

\* let version = get_cargo_version(&path)?;
Load ==
    /\ pc = "load"
    /\ LET r == GetCargoVersion(manifest)
       IN  IF r.ok
           THEN /\ version' = r.ver
                /\ loaded' = manifest.text
                /\ pc' = "guard"
                /\ exit' = exit
           ELSE /\ Finish("err")
                /\ UNCHANGED <<version, loaded>>
    /\ UNCHANGED <<dry_run, git, command, build, manifest, version_new, clean, calls, out>>
    /\ UNCHANGED vvars

\* the guard of a dry run: is_working_dir_clean is not called
GuardSkip ==
    /\ pc = "guard"
    /\ SkipsGuard
    /\ pc' = "compute"
    /\ UNCHANGED <<dry_run, git, command, build, manifest, loaded, version,
                   version_new, clean, calls, out, exit>>
    /\ UNCHANGED vvars

\* the guard otherwise: `git status --porcelain`, and the stop on a dirty tree
GuardStatus ==
    /\ pc = "guard"
    /\ ~SkipsGuard
    /\ \E o \in Outcomes, so \in Stdouts :
        /\ calls' = Append(calls, Call("status", <<>>, o))
        /\ IF o = "spawn_err" \/ so = "invalid_utf8"
           THEN /\ clean' = "error"
                /\ Finish("err")
                /\ out' = out
           ELSE /\ clean' = IF IsClean(so) THEN "clean" ELSE "dirty"
                /\ IF GuardStops(IsClean(so))
                   THEN /\ out' = Append(out, Line("dirty", <<>>, <<>>))
                        /\ Finish("ok")
                   ELSE /\ out' = out
                        /\ pc' = "compute"
                        /\ exit' = exit
    /\ UNCHANGED <<dry_run, git, command, build, manifest, loaded, version, version_new>>
    /\ UNCHANGED vvars

\* the bump and the report; a dry run ends here
Compute ==
    /\ pc = "compute"
    /\ LET bumped == Bump(command, version)
           report == <<Line("promoting", Format(version), Format(bumped.ver))>>
                         \o (IF git THEN <<Line("git_note", <<>>, <<>>)>> ELSE <<>>)
       IN  IF Panics(bumped)
           THEN /\ Finish("panic")
                /\ UNCHANGED <<version_new, out>>
           ELSE /\ version_new' = bumped.ver
                /\ IF SkipsWrite
                   THEN /\ out' = out \o report \o <<Line("dry_run", <<>>, <<>>)>>
                        /\ Finish("ok")
                   ELSE /\ out' = out \o report
                        /\ pc' = "write"
                        /\ exit' = exit
    /\ UNCHANGED <<dry_run, git, command, build, manifest, loaded, version, clean, calls>>
    /\ UNCHANGED vvars

\* set_cargo_version up to std::fs::write: the manifest is read again and rewritten
WriteManifest ==
    /\ pc = "write"
    /\ IF manifest.kind # "ok"
       THEN /\ Finish("err")
            /\ UNCHANGED <<manifest, calls>>
       ELSE \E w \in {"ok", "io_err"} :
            /\ calls' = Append(calls, Call("write", Format(version_new), w))
            /\ IF w = "ok"
               THEN /\ manifest' = [manifest EXCEPT !.text = Format(version_new)]
                    /\ pc' = "refresh"
                    /\ exit' = exit
               ELSE /\ manifest' = manifest
                    /\ Finish("err")
    /\ UNCHANGED <<dry_run, git, command, build, loaded, version, version_new, clean, out>>
    /\ UNCHANGED vvars

\* the rest of set_cargo_version: `cargo check`, whose exit status is not read
CargoCheck ==
    /\ pc = "refresh"
    /\ \E o \in Outcomes :
        /\ calls' = Append(calls, Call("cargo_check", <<>>, o))
        /\ IF o = "spawn_err"
           THEN /\ Finish("err")
                /\ out' = out
           ELSE /\ out' = Append(out, Line("wrote", <<>>, <<>>))
                /\ IF WantsCommit
                   THEN pc' = "stage" /\ exit' = exit
                   ELSE Finish("ok")
    /\ UNCHANGED <<dry_run, git, command, build, manifest, loaded, version, version_new, clean>>
    /\ UNCHANGED vvars

\* commit_with_tag, one subprocess at a time; no exit status is read
GitStep(at, op, arg, then) ==
    /\ pc = at
    /\ \E o \in Outcomes :
        /\ calls' = Append(calls, Call(op, arg, o))
        /\ IF o = "spawn_err" THEN Finish("err")
           ELSE IF then = "done" THEN Finish("ok")
           ELSE pc' = then /\ exit' = exit
    /\ UNCHANGED <<dry_run, git, command, build, manifest, loaded, version,
                   version_new, clean, out>>
    /\ UNCHANGED vvars

Stage == GitStep("stage", "add", <<>>, "commit")
Commit == GitStep("commit", "commit", TagName(version_new), "tag")
Tag == GitStep("tag", "tag", TagName(version_new), "done")

Next ==
    \/ Load
    \/ GuardSkip
    \/ GuardStatus
    \/ Compute
    \/ WriteManifest
    \/ CargoCheck
    \/ Stage
    \/ Commit
    \/ Tag

Spec == Init /\ [][Next]_vars

(***************************************************************************)
(* vocabulary of the properties                                            *)
(***************************************************************************)
Ops == [i \in 1..Len(calls) |-> calls[i].op]
HasOp(op) == \E i \in 1..Len(calls) : calls[i].op = op
CountOp(op) == Cardinality({ i \in 1..Len(calls) : calls[i].op = op })
GitOps == SelectSeq(Ops, LAMBDA op : op \in {"add", "commit", "tag"})
IsPrefix(s, t) == Len(s) <= Len(t) /\ s = SubSeq(t, 1, Len(s))
Printed(msg) == \E i \in 1..Len(out) : out[i].msg = msg

\* no manifest write, no consistency refresh, no stage, commit or tag
NoMutation == \A i \in 1..Len(calls) : calls[i].op = "status"

\* the component `command` increments
Target(cmd, v) ==
    CASE cmd = "Patch" -> v.patch
      [] cmd = "Minor" -> v.minor
      [] cmd = "Major" -> v.major

\* b = a + 1 as numbers below 2^64, stated on the limbs without computing a sum
IsSucc(a, b) ==
    \E k \in Limbs :
        /\ \A i \in Limbs : i < k => a[i] = LimbBase - 1 /\ b[i] = 0
        /\ b[k] = a[k] + 1
        /\ \A i \in Limbs : i > k => b[i] = a[i]

\* a decimal numeral as Display writes it: digits only, no leading zero
Canonical(seg) ==
    /\ seg # <<>>
    /\ \A i \in 1..Len(seg) : IsDigit(seg[i])
    /\ Len(seg) > 1 => seg[1] # "0"

\* Load succeeded on the manifest as it now is
LoadSucceeds == manifest.kind = "ok" /\ FromStr(manifest.text).ok

\* set_cargo_version returned Ok: the file was written and `cargo check` started
SetCargoVersionOk ==
    /\ Len(calls) >= 3
    /\ calls[2].op = "write" /\ calls[2].outcome = "ok"
    /\ calls[3].op = "cargo_check" /\ calls[3].outcome # "spawn_err"

GitSpawnFailed ==
    \E i \in 1..Len(calls) :
        calls[i].op \in {"add", "commit", "tag"} /\ calls[i].outcome = "spawn_err"

\* a segment without its leading plus sign and leading zeros
RECURSIVE StripZeros(_)
StripZeros(seg) ==
    IF Len(seg) > 1 /\ Head(seg) = "0" THEN StripZeros(Tail(seg)) ELSE seg

Canon(seg) == StripZeros(IF seg # <<>> /\ Head(seg) = "+" THEN Tail(seg) ELSE seg)

(***************************************************************************)
(* C1                                                                      *)
(***************************************************************************)
\* C1 as stated: every dry run makes no call at all and ends with success
\* status.
C1_DryRunAlwaysSucceeds ==
    (dry_run /\ pc = "done") => (NoMutation /\ exit = "ok")

\* C1, amended: in a dry run, whatever the command, the git flag and the
\* repository, the manifest is never written and no subprocess is started
\* (no status, cargo check, stage, commit or tag); the run ends with success
\* status, after the dry-run notice, exactly when Load succeeded and the bump
\* did not panic on overflow.
C1_DryRunMutatesNothing ==
    dry_run =>
        /\ calls = <<>>
        /\ pc # "load" /\ LoadSucceeds => manifest.text = loaded
        /\ pc = "done" =>
            /\ exit = "ok" <=>
                  (LoadSucceeds /\ ~(Target(command, version) = U64Max /\ build = "debug"))
            /\ exit = "ok" => out[Len(out)].msg = "dry_run"

C1_Witness ==
    /\ pc = "done" /\ dry_run /\ git /\ command = "Major"
    /\ exit = "ok" /\ Printed("dry_run") /\ Printed("git_note")

(***************************************************************************)
(* C2                                                                      *)
(***************************************************************************)
\* C2: when dry-run is off and is_working_dir_clean returns false, the run
\* prints the message and ends with success status having written nothing:
\* the status query is the only call, for every command and git flag.
C2_DirtyStops ==
    (~dry_run /\ clean = "dirty") =>
        /\ pc = "done" /\ exit = "ok"
        /\ Ops = <<"status">>
        /\ out = <<Line("dirty", <<>>, <<>>)>>
        /\ manifest.text = loaded

C2_Witness ==
    /\ ~dry_run /\ git /\ clean = "dirty" /\ pc = "done" /\ command = "Patch"

(***************************************************************************)
(* C3                                                                      *)
(***************************************************************************)
\* C3 as stated: with git on, dry-run off and a clean repository, once
\* set_cargo_version has succeeded the run invokes stage, commit and tag, each
\* exactly once.
C3_AlwaysAllThree ==
    (pc = "done" /\ git /\ ~dry_run /\ clean = "clean" /\ SetCargoVersionOk)
        => GitOps = <<"add", "commit", "tag">>

\* C3, amended: stage, commit and tag are invoked only with git on and dry-run
\* off, only after the manifest write and its refresh, in that order and each
\* at most once, commit and tag both named "v" + the text just written; all
\* three are invoked exactly once and the run succeeds unless one of them
\* cannot be started, which ends the run with failure status on the spot.
C3_CommitAndTagAfterWrite ==
    /\ IsPrefix(GitOps, <<"add", "commit", "tag">>)
    /\ GitOps # <<>> =>
        /\ git /\ ~dry_run /\ clean = "clean"
        /\ SetCargoVersionOk
        /\ IsPrefix(<<"status", "write", "cargo_check">> \o GitOps, Ops)
    /\ \A i \in 1..Len(calls) :
        /\ calls[i].op \in {"commit", "tag"} => calls[i].arg = <<"v">> \o manifest.text
        /\ (calls[i].op \in {"add", "commit", "tag"} /\ calls[i].outcome = "spawn_err")
               => (i = Len(calls) /\ pc = "done" /\ exit = "err")
    /\ (pc = "done" /\ git /\ ~dry_run /\ SetCargoVersionOk /\ ~GitSpawnFailed)
           => (GitOps = <<"add", "commit", "tag">> /\ exit = "ok")

C3_Witness ==
    /\ pc = "done" /\ exit = "ok"
    /\ Ops = <<"status", "write", "cargo_check", "add", "commit", "tag">>
    /\ loaded = <<"1", ".", "1", ".", "1">> /\ command = "Patch"
    /\ calls[5].arg = <<"v", "1", ".", "1", ".", "2">>
    /\ calls[6].arg = <<"v", "1", ".", "1", ".", "2">>

(***************************************************************************)
(* C4                                                                      *)
(***************************************************************************)
\* C4: a subprocess or write that fails (does not start, or exits non-zero)
\* is the last step of the run, and the run ends with failure status.
C4_FailureStopsTheRun ==
    \A i \in 1..Len(calls) :
        calls[i].outcome # "ok" => (i = Len(calls) /\ pc = "done" /\ exit = "err")

(***************************************************************************)
(* C5                                                                      *)
(***************************************************************************)
\* C5: from_str succeeds exactly when the text has exactly three segments and
\* each parses as a u64, and then yields them in order.
C5_ExactlyThreeSegments ==
    vpc \in {"parsed", "failed"} =>
        LET parts == Split(input)
        IN  /\ cur.ok <=> (Len(parts) = 3 /\ \A i \in 1..3 : ParseU64(parts[i]).ok)
            /\ cur.ok => cur.ver = [major |-> ParseU64(parts[1]).val,
                                    minor |-> ParseU64(parts[2]).val,
                                    patch |-> ParseU64(parts[3]).val]

(***************************************************************************)
(* C6                                                                      *)
(***************************************************************************)
\* C6 as stated: Format(Parse(s)) = s for every accepted three-segment s.
C6_RoundTripAll ==
    (vpc = "parsed" /\ shown.set /\ Len(Split(input)) = 3) => shown.text = input

\* C6, amended: for an accepted three-segment s, Format(Parse(s)) is s with
\* each segment's leading plus sign and leading zeros removed; it equals s
\* exactly when every segment is a canonical numeral (digits only, no leading
\* zero).
C6_RoundTripCanonical ==
    (vpc = "parsed" /\ shown.set /\ Len(Split(input)) = 3) =>
        LET parts == Split(input)
        IN  /\ shown.text = Join(<<Canon(parts[1]), Canon(parts[2]), Canon(parts[3])>>)
            /\ shown.text = input <=> \A i \in 1..3 : Canonical(parts[i])

C6_Witness ==
    /\ vpc = "parsed" /\ shown.set
    /\ Split(input) = << <<"0">>, MaxText, <<"1">> >>
    /\ shown.text = input

(***************************************************************************)
(* C7                                                                      *)
(***************************************************************************)
\* C7: when the incremented component is below 2^64 - 1, the version computed
\* (and, unless dry-run, written) is Patch -> (a,b,c+1), Minor -> (a,b+1,0),
\* Major -> (a+1,0,0) of the version Load read, which itself stays as loaded;
\* one bump is reported and at most one write made per run; from "1.1.1" the
\* texts are "1.1.2", "1.2.0" and "2.0.0".
C7_BumpRules ==
    (Printed("promoting") /\ Target(command, version) # U64Max) =>
        /\ version = FromStr(loaded).ver
        /\ command = "Patch" =>
              /\ version_new.major = version.major
              /\ version_new.minor = version.minor
              /\ IsSucc(version.patch, version_new.patch)
        /\ command = "Minor" =>
              /\ version_new.major = version.major
              /\ IsSucc(version.minor, version_new.minor)
              /\ version_new.patch = U64Zero
        /\ command = "Major" =>
              /\ IsSucc(version.major, version_new.major)
              /\ version_new.minor = U64Zero
              /\ version_new.patch = U64Zero
        /\ Cardinality({ i \in 1..Len(out) : out[i].msg = "promoting" }) = 1
        /\ CountOp("write") <= 1
        /\ \A i \in 1..Len(calls) : calls[i].op = "write" =>
              /\ Len(Split(calls[i].arg)) = 3
              /\ \A k \in 1..3 : Canonical(Split(calls[i].arg)[k])
              /\ FromStr(calls[i].arg).ver = version_new
              /\ calls[i].outcome = "ok" => manifest.text = calls[i].arg
        /\ loaded = <<"1", ".", "1", ".", "1">> =>
              out[1].to = (CASE command = "Patch" -> <<"1", ".", "1", ".", "2">>
                             [] command = "Minor" -> <<"1", ".", "2", ".", "0">>
                             [] command = "Major" -> <<"2", ".", "0", ".", "0">>)

C7_Witness ==
    /\ pc = "done" /\ exit = "ok" /\ command = "Minor"
    /\ loaded = <<"1", ".", "1", ".", "1">>
    /\ HasOp("write")
    /\ manifest.text = <<"1", ".", "2", ".", "0">>

(***************************************************************************)
(* C8                                                                      *)
(***************************************************************************)
\* C8: when the component to increment holds 2^64 - 1 no version is written.
C8_NoWriteOnOverflow ==
    HasOp("write") => Target(command, version) # U64Max

(***************************************************************************)
(* C9                                                                      *)
(***************************************************************************)
\* C9: when Load fails (file missing or unparseable, package or version
\* missing, version not a string, or from_str fails) the run ends at once with
\* failure status: no status query, nothing printed, no write, stage, commit
\* or tag, whatever the flags.
C9_LoadFailureStopsFirst ==
    (pc # "load" /\ ~LoadSucceeds) =>
        /\ pc = "done" /\ exit = "err"
        /\ calls = <<>> /\ out = <<>> /\ clean = "unqueried"

C9_Witness ==
    /\ pc = "done" /\ exit = "err" /\ ~dry_run /\ git
    /\ manifest.kind = "ok" /\ ~FromStr(manifest.text).ok
    /\ calls = <<>>

(***************************************************************************)
(* C10                                                                     *)
(***************************************************************************)
\* C10: with git off, stage, commit and tag are never invoked; the calls made
\* are at most the status query, one manifest write and one refresh, in that
\* order, and a successful run on a clean repository without dry-run makes
\* exactly these.
C10_NoGitWithoutFlag ==
    ~git =>
        /\ GitOps = <<>>
        /\ CountOp("write") <= 1 /\ CountOp("cargo_check") <= 1
        /\ IsPrefix(Ops, <<"status", "write", "cargo_check">>)
        /\ (pc = "done" /\ exit = "ok" /\ ~dry_run /\ clean = "clean")
               => Ops = <<"status", "write", "cargo_check">>

C10_Witness ==
    /\ pc = "done" /\ exit = "ok" /\ ~git /\ ~dry_run
    /\ Ops = <<"status", "write", "cargo_check">>
    /\ manifest.text # loaded

====
